---- MODULE Spec2Model ----
(***************************************************************************)
(* fedisched: the scheduled-post publishing engine (app/scheduler.py) and  *)
(* the post endpoints that share the post table with it (app/api/posts.py, *)
(* app/api/accounts.py).                                                    *)
(*                                                                         *)
(* The scheduler runs in APScheduler's background thread; the endpoints    *)
(* are `async def` handlers without an await, so the event loop runs them  *)
(* one at a time, but each of them interleaves with the scheduler thread   *)
(* at every database commit.  Time is counted in whole minutes.            *)
(***************************************************************************)
EXTENDS Integers, Sequences, FiniteSets, TLC

\* ------------------------------------------------------------- bounds
MaxPosts == 2
MaxAccounts == 1
MaxSchedAt == 1
MaxClock == 1
MaxCrashes == 1
MaxRetryCount == 4
MaxPublishes == 2
MaxDispatches == 5
MaxRequests == 4
MaxRows == 3
MaxWarnings == 1

\* ---------------------------------------------------- program constants
max_retries == 3
max_instances == 1
_OAUTH_STATE_TTL_MINUTES == 15
None == -1

PostIds == 1..MaxPosts
AccountIds == 1..MaxAccounts

\* 1 + 2 + 4 minutes of backoff after the latest first attempt.
Horizon == MaxSchedAt + 7

\* The messages an adapter failure can carry (ValueError texts).
Errors == {"unreachable", "unauthorized"}
NoError == "NULL"
AccountNotFound == "Account not found"

\* A row of the scheduledpost table that was never inserted or was deleted.
Absent == [status |-> "absent", retry_count |-> 0, scheduled_at |-> 0,
           published_at |-> None, last_error |-> NoError, account_id |-> 0]

\* ScheduledPost(...) as create_post builds it: the model's defaults.
NewPost(acct, at, st) ==
    [status |-> st, retry_count |-> 0, scheduled_at |-> at,
     published_at |-> None, last_error |-> NoError, account_id |-> acct]

VARIABLES
    now,        \* the wall clock, in minutes
    posts,      \* the scheduledpost table: PostIds -> row
    accounts,   \* the ids of the rows of the account table
    nextId,     \* the next primary key of scheduledpost
    spc,        \* where the scheduler thread is
    due,        \* the cycle's due_posts still to process (head = current)
    loaded,     \* the session's copy of the current post after refresh:
                \* the columns the outcome write reads or compares
    result,     \* what _publish_to_account returned for the current post
    instances,  \* how many runs of the polling job the executor has going
    selected,   \* per post: its retry_count and scheduled_at when the
                \* running cycle selected it, None for a post not selected
    router,     \* one call of _publish_to_account: its inputs, its outcome
    account,    \* per account id: the platform and credential of the row
    shutdown,   \* PostScheduler.shutdown: not called, waiting, or returned
    warnings,   \* how many times start logged "Scheduler already started"
    users,      \* the usernames of the rows of the user table
    accountTable, \* the account table as the account endpoints see it
    oauthStates,  \* the rows of the mastodonoauthstate table
    requests,   \* how many requests the account endpoints have served
    response,   \* the last response of an auth or account endpoint
    api,        \* the request handler in progress, if any
    crashes,    \* how many times the process has died
    published,  \* per post: how many adapter calls succeeded
    dispatched  \* per post: how many adapter calls the scheduler started

vars == <<now, posts, accounts, nextId, spc, due, loaded, result, instances,
          selected, router, account, shutdown, warnings, users, accountTable,
          oauthStates, requests, response, api, crashes, published,
          dispatched>>

dbVars == <<posts, accounts, nextId>>
schedVars == <<spc, due, loaded, result, instances, selected>>
histVars == <<published, dispatched>>
webVars == <<users, accountTable, oauthStates, requests, response>>
\* What the scheduler and the post endpoints never write.
restVars == <<router, account, shutdown, warnings, webVars>>

NoLoaded == [retry_count |-> 0, account_id |-> 0, last_error |-> NoError]
NoResult == [ok |-> FALSE, error |-> NoError]
ApiIdle == [pc |-> "idle", post |-> 0, retry_count |-> 0,
            last_error |-> NoError]
NotSelected == [retry_count |-> None, scheduled_at |-> None]
NoSelection == [p \in PostIds |-> NotSelected]

Min(a, b) == IF a < b THEN a ELSE b

\* 2 ** n
RECURSIVE Pow2(_)
Pow2(n) == IF n = 0 THEN 1 ELSE 2 * Pow2(n - 1)

\* The outcomes _publish_to_account can return: (True, None, url) or
\* (False, message, None).
Outcomes == {[ok |-> TRUE, error |-> NoError]} \cup
            {[ok |-> FALSE, error |-> e] : e \in Errors}

\* ------------------------------------------------- the dispatch router
\* account.platform, the stored credential and what the adapter's
\* post_status does when called: the inputs of one _publish_to_account.
Platforms == {"mastodon", "bluesky", "twitter", ""}
Credentials == {"token", "", "corrupt"}
Urls == {"https://social.example/@u/1", "at://did:plc:u/app.bsky.feed.post/1"}
Unexpected == {"timed out", "no attribute"}

Returned(success, error, url) ==
    [kind |-> "return", cls |-> "", success |-> success, error |-> error,
     url |-> url]

Raised(cls, message) ==
    [kind |-> "raise", cls |-> cls, success |-> FALSE, error |-> message,
     url |-> NoError]

NotCalled ==
    [kind |-> "none", cls |-> "", success |-> FALSE, error |-> NoError,
     url |-> NoError]

\* post_status of either adapter: the post's URL, a ValueError for an auth
\* or API failure, or whatever else the client library lets through.
AdapterBehaviours ==
    {Returned(TRUE, NoError, u) : u \in Urls} \cup
    {Raised("ValueError", e) : e \in Errors} \cup
    {Raised("Exception", m) : m \in Unexpected}

\* CredentialEncryption.decrypt: the message of the ValueError it raises,
\* NoError when it returns the plaintext.
decrypt_credential(ciphertext) ==
    IF ciphertext = "" THEN "Cannot decrypt empty string"
    ELSE IF ciphertext = "corrupt"
    THEN "Invalid encryption token or corrupted data"
    ELSE NoError

\* Mutant: a platform that is not bluesky is routed to the mastodon adapter.
PublishBodyDefaultsToMastodon(platform, credentials, adapter) ==
    IF decrypt_credential(credentials) /= NoError
    THEN Raised("ValueError", decrypt_credential(credentials))
    ELSE IF adapter.kind = "raise" THEN adapter
    ELSE Returned(TRUE, NoError, adapter.url)

\* The body of the try block of _publish_to_account.
PublishBody(platform, credentials, adapter) ==
    IF decrypt_credential(credentials) /= NoError
    THEN Raised("ValueError", decrypt_credential(credentials))
    ELSE IF platform \in {"mastodon", "bluesky"}
    THEN IF adapter.kind = "raise" THEN adapter
         ELSE Returned(TRUE, NoError, adapter.url)
    ELSE Returned(FALSE, "Unsupported platform: " \o platform, NoError)

\* Mutant: only the adapters' ValueError is caught.
PublishToAccountValueErrorOnly(platform, credentials, adapter) ==
    LET b == PublishBody(platform, credentials, adapter)
    IN  IF b.kind = "raise" /\ b.cls = "ValueError"
        THEN Returned(FALSE, b.error, NoError)
        ELSE b

\* _publish_to_account: the try block and its two handlers.
PublishToAccount(platform, credentials, adapter) ==
    LET b == PublishBody(platform, credentials, adapter)
    IN  IF b.kind = "return" THEN b
        ELSE IF b.cls = "ValueError"
        THEN Returned(FALSE, b.error, NoError)
        ELSE Returned(FALSE, "Unexpected error: " \o b.error, NoError)

\* The calls that can be made: bluesky's post_status turns every exception
\* into a ValueError, mastodon's lets the ones it does not name through.
RouterCalls ==
    {c \in [platform : Platforms, credentials : Credentials,
            adapter : AdapterBehaviours, outcome : {NotCalled}] :
        c.platform = "bluesky" => c.adapter.cls /= "Exception"}

NoCall ==
    [platform |-> "mastodon", credentials |-> "token",
     adapter |-> NotCalled, outcome |-> NotCalled]

\* What _process_post keeps of the returned tuple: success and error.
AsResult(o) == [ok |-> o.success, error |-> o.error]

\* What an adapter does when the engine calls it: the post's URL or one of
\* the adapter's ValueErrors.
EngineBehaviours ==
    {Returned(TRUE, NoError, "https://social.example/@u/1")} \cup
    {Raised("ValueError", e) : e \in Errors}

\* The account rows of the engine: a connected mastodon account.
MastodonAccount ==
    [platform |-> "mastodon", credentials |-> "token", is_active |-> TRUE]

\* The outcomes _publish_to_account can return for a post of account a.
OutcomesOf(a) ==
    {AsResult(PublishToAccount(account[a].platform, account[a].credentials, b))
        : b \in EngineBehaviours}

\* One call of _publish_to_account with the inputs drawn at the start.
Dispatch ==
    /\ router.outcome = NotCalled
    /\ router.adapter /= NotCalled
    /\ router' = [router EXCEPT !.outcome =
                      PublishToAccount(router.platform, router.credentials,
                                       router.adapter)]
    /\ UNCHANGED <<now, dbVars, schedVars, api, crashes, histVars, account,
                   shutdown, warnings, webVars>>

\* ------------------------------------------------------------ due work
\* Mutant: a post is due only after its minute has passed.
IsDueStrict(p) == posts[p].status = "scheduled" /\ posts[p].scheduled_at < now

IsDue(p) == posts[p].status = "scheduled" /\ posts[p].scheduled_at <= now

DueSet == {p \in PostIds : IsDue(p)}

\* Mutant: the due posts in any order at all.
DueOrdersUnsorted(S) ==
    {q \in [1..Cardinality(S) -> S] :
        \A i, j \in 1..Cardinality(S) : i /= j => q[i] /= q[j]}

\* The sequences that list the set S once each, ascending in scheduled_at
\* (ORDER BY scheduled_at: rows with equal scheduled_at come in any order).
DueOrders(S) ==
    {q \in [1..Cardinality(S) -> S] :
        /\ \A i, j \in 1..Cardinality(S) : i /= j => q[i] /= q[j]
        /\ \A i, j \in 1..Cardinality(S) :
              i < j => posts[q[i]].scheduled_at <= posts[q[j]].scheduled_at}

\* ------------------------------------------------------------ scheduler
\* Mutant: recovery counts the interrupted attempt as a failed one.
ResetStuckCounting(ps) ==
    [p \in PostIds |->
        IF ps[p].status = "publishing"
        THEN [ps[p] EXCEPT !.status = "scheduled",
                           !.retry_count = @ + 1]
        ELSE ps[p]]

\* Mutant: recovery resets nothing.
ResetNothing(ps) == ps

\* _reset_stuck_posts: every 'publishing' row back to 'scheduled'.
ResetStuck(ps) ==
    [p \in PostIds |->
        IF ps[p].status = "publishing"
        THEN [ps[p] EXCEPT !.status = "scheduled"]
        ELSE ps[p]]

\* Mutant: start registers the job and lets it run, recovery left out.
StartWithoutRecovery ==
    /\ spc = "stopped"
    /\ spc' = "idle"
    /\ UNCHANGED <<now, restVars, dbVars, due, loaded, result, instances,
                   selected, api, crashes, histVars>>

\* PostScheduler.start, called from lifespan when the process starts, up to
\* the return of _reset_stuck_posts: no job is registered yet.
Start ==
    /\ spc = "stopped"
    /\ posts' = ResetStuck(posts)
    /\ spc' = "starting"
    /\ UNCHANGED <<now, restVars, accounts, nextId, due, loaded, result,
                   instances, selected, api, crashes, histVars>>

\* PostScheduler.start, the rest: add_job registers process_due_posts and
\* scheduler.start() lets the trigger fire.
AddJob ==
    /\ spc = "starting"
    /\ spc' = "idle"
    /\ UNCHANGED <<now, restVars, dbVars, due, loaded, result, instances,
                   selected, api, crashes, histVars>>

\* The job is registered and the scheduler runs.
Registered == spc \notin {"stopped", "starting"}

\* Mutant: start runs the recovery whether or not the job is registered.
StartAgainRecovers ==
    /\ Registered
    /\ warnings < MaxWarnings
    /\ warnings' = warnings + 1
    /\ posts' = ResetStuck(posts)
    /\ UNCHANGED <<now, accounts, nextId, schedVars, api, crashes, histVars,
                   router, account, shutdown, webVars>>

\* PostScheduler.start called while self._job is set: the warning is logged
\* and the call returns.
StartAgain ==
    /\ Registered
    /\ warnings < MaxWarnings
    /\ warnings' = warnings + 1
    /\ UNCHANGED <<now, dbVars, schedVars, api, crashes, histVars, router,
                   account, shutdown, webVars>>

\* scheduler.running: shutdown has not been called.
Running == shutdown = "none"

\* Mutant: the executor starts a run however many are going.
JobMayStartAlways == TRUE

\* The executor starts a run of the job only while fewer than
\* max_instances runs are going; otherwise the run is skipped.
JobMayStart == instances < max_instances

\* Mutant: the poll claims every due post at once, before the first dispatch.
PollClaimsAll ==
    /\ Registered
    /\ Running
    /\ JobMayStart
    /\ \E q \in DueOrders(DueSet) : due' = q
    /\ posts' = [p \in PostIds |->
                    IF IsDue(p) THEN [posts[p] EXCEPT !.status = "publishing"]
                    ELSE posts[p]]
    /\ selected' = [p \in PostIds |->
                       IF IsDue(p)
                       THEN [retry_count |-> posts[p].retry_count,
                             scheduled_at |-> posts[p].scheduled_at]
                       ELSE NotSelected]
    /\ instances' = instances + 1
    /\ spc' = "cycle"
    /\ UNCHANGED <<now, restVars, accounts, nextId, loaded, result, api,
                   crashes, histVars>>

\* process_due_posts, the trigger fires and the job selects the due posts.
Poll ==
    /\ Registered
    /\ Running
    /\ JobMayStart
    /\ \E q \in DueOrders(DueSet) : due' = q
    /\ selected' = [p \in PostIds |->
                       IF IsDue(p)
                       THEN [retry_count |-> posts[p].retry_count,
                             scheduled_at |-> posts[p].scheduled_at]
                       ELSE NotSelected]
    /\ instances' = instances + 1
    /\ spc' = "cycle"
    /\ UNCHANGED <<now, restVars, dbVars, loaded, result, api, crashes,
                   histVars>>

\* Mutant: a cycle with nothing due resets the publishing rows it sees.
NoDuePostsResets ==
    /\ spc = "cycle"
    /\ due = <<>>
    /\ posts' = ResetStuck(posts)
    /\ spc' = "idle"
    /\ instances' = instances - 1
    /\ selected' = NoSelection
    /\ UNCHANGED <<now, restVars, accounts, nextId, due, loaded, result, api,
                   crashes, histVars>>

\* process_due_posts, `if not due_posts: return`: the run ends.
NoDuePosts ==
    /\ spc = "cycle"
    /\ due = <<>>
    /\ spc' = "idle"
    /\ instances' = instances - 1
    /\ selected' = NoSelection
    /\ UNCHANGED <<now, restVars, dbVars, due, loaded, result, api, crashes,
                   histVars>>

\* The cycle's loop: after the last post the job returns.
AfterPost(rest) == IF rest = <<>> THEN "idle" ELSE "cycle"

\* The job's run ends with the cycle.
InstancesAfter(rest) == IF rest = <<>> THEN instances - 1 ELSE instances

SelectedAfter(rest) == IF rest = <<>> THEN NoSelection ELSE selected

\* Mutant: the claim is not written before the dispatch.
ClaimedNotPersisted(row) == row

\* post.status = "publishing" and the commit that precedes the dispatch.
Claimed(row) == [row EXCEPT !.status = "publishing"]

\* _process_post, its first half: the claim, the refresh and the account
\* lookup.  The UPDATE names the row by id alone, whatever status the row
\* has by now; a row deleted meanwhile makes the commit raise and
\* APScheduler ends the job run.  `counting` says whether the history
\* variable `dispatched` records the dispatch.
Claim(counting) ==
    /\ spc = "cycle"
    /\ due /= <<>>
    /\ LET p == Head(due)
           row == Claimed(posts[p])
       IN  IF posts[p].status = "absent"
           THEN /\ spc' = "idle"
                /\ due' = <<>>
                /\ instances' = instances - 1
                /\ selected' = NoSelection
                /\ UNCHANGED <<posts, loaded, dispatched>>
           ELSE IF row.account_id \notin accounts
           THEN /\ posts' = [posts EXCEPT ![p] =
                        [row EXCEPT !.status = "failed",
                                    !.last_error = AccountNotFound]]
                /\ due' = Tail(due)
                /\ spc' = AfterPost(Tail(due))
                /\ instances' = InstancesAfter(Tail(due))
                /\ selected' = SelectedAfter(Tail(due))
                /\ UNCHANGED <<loaded, dispatched>>
           ELSE /\ posts' = [posts EXCEPT ![p] = row]
                /\ loaded' = [retry_count |-> row.retry_count,
                              account_id |-> row.account_id,
                              last_error |-> row.last_error]
                /\ dispatched' = [dispatched EXCEPT ![p] =
                        IF counting THEN Min(@ + 1, MaxDispatches) ELSE @]
                /\ spc' = "dispatch"
                /\ UNCHANGED <<due, instances, selected>>
    /\ UNCHANGED <<now, restVars, accounts, nextId, result, api, crashes,
                   published>>

\* Mutant: a failed publish marks the account inactive.
PublishMarksInactive ==
    /\ spc = "dispatch"
    /\ \E r \in OutcomesOf(loaded.account_id) :
          /\ result' = r
          /\ published' = [published EXCEPT ![Head(due)] =
                IF r.ok THEN Min(@ + 1, MaxPublishes) ELSE @]
          /\ account' = [account EXCEPT ![loaded.account_id].is_active =
                            IF r.ok THEN @ ELSE FALSE]
    /\ spc' = "returned"
    /\ UNCHANGED <<now, router, shutdown, warnings, webVars, dbVars, due,
                   loaded, instances, selected, api, crashes, dispatched>>

\* _publish_to_account returns to _process_post.
Publish ==
    /\ spc = "dispatch"
    /\ \E r \in OutcomesOf(loaded.account_id) :
          /\ result' = r
          /\ published' = [published EXCEPT ![Head(due)] =
                IF r.ok THEN Min(@ + 1, MaxPublishes) ELSE @]
    /\ spc' = "returned"
    /\ UNCHANGED <<now, restVars, dbVars, due, loaded, instances, selected, api,
                   crashes, dispatched>>

\* session.commit() after an assignment to a column: the UPDATE carries the
\* column only when the value assigned differs from the session's copy, so
\* an equal value leaves the row's column as another session wrote it.
Flushed(cached, value, current) == IF value = cached THEN current ELSE value

\* Mutant: a failed publish is retried without counting the attempt.
ProcessOutcomeNoIncrement(row, s, r) ==
    IF r.ok
    THEN [row EXCEPT !.status = "published",
                     !.published_at = now,
                     !.last_error = Flushed(s.last_error, NoError, @)]
    ELSE IF s.retry_count < max_retries
    THEN [row EXCEPT !.last_error = Flushed(s.last_error, r.error, @),
                     !.scheduled_at = now + Pow2(s.retry_count),
                     !.status = "scheduled"]
    ELSE [row EXCEPT !.status = "failed",
                     !.last_error = Flushed(s.last_error, r.error, @)]

\* Mutant: a successful publish counts as an attempt too.
ProcessOutcomeSuccessCounts(row, s, r) ==
    IF r.ok
    THEN [row EXCEPT !.status = "published",
                     !.published_at = now,
                     !.last_error = Flushed(s.last_error, NoError, @),
                     !.retry_count = s.retry_count + 1]
    ELSE IF s.retry_count < max_retries
    THEN [row EXCEPT !.retry_count = s.retry_count + 1,
                     !.last_error = Flushed(s.last_error, r.error, @),
                     !.scheduled_at = now + Pow2(s.retry_count),
                     !.status = "scheduled"]
    ELSE [row EXCEPT !.status = "failed",
                     !.last_error = Flushed(s.last_error, r.error, @)]

\* Mutant: the exponent is the incremented retry_count.
delay_minutes_incremented(retry_count) == Pow2(retry_count + 1)

\* Exponential backoff: 2^retry_count minutes.
delay_minutes(retry_count) == Pow2(retry_count)

\* Mutant: a failed publish ends the post at once, as the endpoints do.
ProcessOutcomeNoRetry(row, s, r) ==
    IF r.ok
    THEN [row EXCEPT !.status = "published",
                     !.published_at = now,
                     !.last_error = Flushed(s.last_error, NoError, @)]
    ELSE [row EXCEPT !.status = "failed",
                     !.last_error = Flushed(s.last_error, r.error, @),
                     !.retry_count = s.retry_count + 1]

\* Mutant: the permanent failure does not record its message.
ProcessOutcomeKeepsError(row, s, r) ==
    IF r.ok
    THEN [row EXCEPT !.status = "published",
                     !.published_at = now,
                     !.last_error = Flushed(s.last_error, NoError, @)]
    ELSE IF s.retry_count < max_retries
    THEN [row EXCEPT !.retry_count = s.retry_count + 1,
                     !.last_error = Flushed(s.last_error, r.error, @),
                     !.scheduled_at = now + Pow2(s.retry_count),
                     !.status = "scheduled"]
    ELSE [row EXCEPT !.status = "failed"]

\* The row _process_post commits for the outcome r, given the session's
\* copy s of the post and the row as the table holds it.
ProcessOutcome(row, s, r) ==
    IF r.ok
    THEN [row EXCEPT !.status = "published",
                     !.published_at = now,
                     !.last_error = Flushed(s.last_error, NoError, @)]
    ELSE IF s.retry_count < max_retries
    THEN [row EXCEPT !.retry_count = s.retry_count + 1,
                     !.last_error = Flushed(s.last_error, r.error, @),
                     !.scheduled_at = now + delay_minutes(s.retry_count),
                     !.status = "scheduled"]
    ELSE [row EXCEPT !.status = "failed",
                     !.last_error = Flushed(s.last_error, r.error, @)]

\* _process_post, its second half: the outcome write.
Resolve ==
    /\ spc = "returned"
    /\ LET p == Head(due)
       IN  IF posts[p].status = "absent"
           THEN /\ spc' = "idle"
                /\ due' = <<>>
                /\ instances' = instances - 1
                /\ selected' = NoSelection
                /\ UNCHANGED posts
           ELSE /\ posts' = [posts EXCEPT
                                ![p] = ProcessOutcome(posts[p], loaded, result)]
                /\ due' = Tail(due)
                /\ spc' = AfterPost(Tail(due))
                /\ instances' = InstancesAfter(Tail(due))
                /\ selected' = SelectedAfter(Tail(due))
    /\ loaded' = NoLoaded
    /\ result' = NoResult
    /\ UNCHANGED <<now, restVars, accounts, nextId, api, crashes, histVars>>

\* PostScheduler.shutdown, called from lifespan when the application
\* stops: scheduler.shutdown(wait=True) ends the trigger at once.
StopScheduler ==
    /\ Registered
    /\ Running
    /\ shutdown' = "waiting"
    /\ UNCHANGED <<now, dbVars, schedVars, api, crashes, histVars, router,
                   account, warnings, webVars>>

\* Mutant: scheduler.shutdown(wait=False) returns with the run going.
ShutdownReturnsAtOnce ==
    /\ shutdown = "waiting"
    /\ shutdown' = "done"
    /\ UNCHANGED <<now, dbVars, schedVars, api, crashes, histVars, router,
                   account, warnings, webVars>>

\* scheduler.shutdown(wait=True) returns once the executor has no run of
\* the job going.
ShutdownReturns ==
    /\ shutdown = "waiting"
    /\ instances = 0
    /\ shutdown' = "done"
    /\ UNCHANGED <<now, dbVars, schedVars, api, crashes, histVars, router,
                   account, warnings, webVars>>

\* The process dies (container restart): both threads are gone, the
\* database stays as the last commit left it.
Crash ==
    /\ spc /= "stopped"
    /\ crashes < MaxCrashes
    /\ crashes' = crashes + 1
    /\ spc' = "stopped"
    /\ due' = <<>>
    /\ loaded' = NoLoaded
    /\ result' = NoResult
    /\ instances' = 0
    /\ selected' = NoSelection
    /\ api' = ApiIdle
    /\ UNCHANGED <<now, restVars, dbVars, histVars>>

\* A minute passes.
Tick(limit) ==
    /\ now < limit
    /\ now' = now + 1
    /\ UNCHANGED <<restVars, dbVars, schedVars, api, crashes, histVars>>

\* ------------------------------------------------------- post endpoints
Serving == Registered /\ api.pc = "idle"

\* A response: the endpoint, the HTTP status, what the body or the redirect
\* says, the state token and the account row or post the request named,
\* the platform the body reports, how many OAuth states the request
\* purged, and the account ids a create_post request carried.
Response(endpoint, status, detail, state, row, platform, purged) ==
    [endpoint |-> endpoint, status |-> status, detail |-> detail,
     state |-> state, row |-> row, platform |-> platform, purged |-> purged,
     ids |-> <<>>]

NoResponse == Response("none", 0, "none", 0, 0, "none", 0)

\* The response of a post endpoint about post `row` or to the ids `ids`.
PostResponse(endpoint, status, detail, row, ids) ==
    [Response(endpoint, status, detail, 0, row, "none", 0) EXCEPT !.ids = ids]

\* What the post endpoints leave alone besides their response.
quietVars == <<router, account, shutdown, warnings, users, accountTable,
               oauthStates, requests>>

\* The handler answers r; `reporting` says whether the model keeps the
\* answer in `response`.
Reports(reporting, r) == response' = IF reporting THEN r ELSE response

\* An id no account row of the caller has: the row does not exist or
\* belongs to another user.
UnknownAccount == MaxAccounts + 1

\* body.account_ids of the requests drawn: one id, an id with an unknown
\* one, an id twice.
AccountLists ==
    {<<a>> : a \in AccountIds \cup {UnknownAccount}}
    \cup {<<a, UnknownAccount>> : a \in AccountIds}
    \cup {<<a, a>> : a \in AccountIds}

\* create_post's query: the account rows of the caller among the ids.
Found(ids) == {a \in accounts : \E i \in 1..Len(ids) : ids[i] = a}

\* Mutant: the request passes when one of its accounts is found.
ValidatedAny(ids) == Found(ids) /= {}

\* create_post's validation: as many rows found as ids requested.
Validated(ids) == Cardinality(Found(ids)) = Len(ids)

\* create_post with scheduled_at given: the validation, then one row of
\* status 'scheduled' for the account found.
CreateScheduled(reporting) ==
    /\ Serving
    /\ \E ids \in AccountLists :
          IF ~Validated(ids)
          THEN /\ Reports(reporting, PostResponse("create", 404,
                                      "Account(s) not found", 0, ids))
               /\ UNCHANGED <<posts, nextId>>
          ELSE /\ nextId <= MaxPosts
               /\ \E a \in Found(ids), at \in 0..MaxSchedAt :
                     posts' = [posts EXCEPT
                                  ![nextId] = NewPost(a, at, "scheduled")]
               /\ nextId' = nextId + 1
               /\ Reports(reporting, PostResponse("create", 200, "scheduled",
                                                  nextId, ids))
    /\ UNCHANGED <<now, quietVars, accounts, schedVars, api, crashes,
                   histVars>>

\* create_post without scheduled_at, up to the adapter call: the
\* validation, then the row is inserted as 'publishing' and refreshed.
CreateImmediate(reporting) ==
    /\ Serving
    /\ \E ids \in AccountLists :
          IF ~Validated(ids)
          THEN /\ Reports(reporting, PostResponse("create", 404,
                                      "Account(s) not found", 0, ids))
               /\ UNCHANGED <<posts, nextId, api>>
          ELSE /\ nextId <= MaxPosts
               /\ \E a \in Found(ids) :
                     posts' = [posts EXCEPT
                                  ![nextId] = NewPost(a, now, "publishing")]
               /\ nextId' = nextId + 1
               /\ api' = [pc |-> "create", post |-> nextId,
                          retry_count |-> 0, last_error |-> NoError]
               /\ UNCHANGED response
    /\ UNCHANGED <<now, quietVars, accounts, schedVars, crashes, histVars>>

\* Mutant: the endpoint's failure branch records the error and the count
\* but leaves the status as the claim set it.
EndpointOutcomeKeepsStatus(row, s, r, clears) ==
    IF r.ok
    THEN [row EXCEPT !.status = "published",
                     !.published_at = now,
                     !.last_error = IF clears
                                   THEN Flushed(s.last_error, NoError, @)
                                   ELSE @]
    ELSE [row EXCEPT !.last_error = Flushed(s.last_error, r.error, @),
                     !.retry_count = s.retry_count + 1]

\* The row an endpoint commits for the outcome r (create_post and
\* retry_post write the same failure; only retry_post clears last_error).
EndpointOutcome(row, s, r, clears) ==
    IF r.ok
    THEN [row EXCEPT !.status = "published",
                     !.published_at = now,
                     !.last_error = IF clears
                                   THEN Flushed(s.last_error, NoError, @)
                                   ELSE @]
    ELSE [row EXCEPT !.status = "failed",
                     !.last_error = Flushed(s.last_error, r.error, @),
                     !.retry_count = s.retry_count + 1]

\* create_post, the adapter's return and the outcome write.
CreateOutcome(reporting) ==
    /\ api.pc = "create"
    /\ \E r \in Outcomes :
          /\ posts' = [posts EXCEPT ![api.post] =
                          EndpointOutcome(posts[api.post], api, r, FALSE)]
          /\ published' = [published EXCEPT ![api.post] =
                IF r.ok THEN Min(@ + 1, MaxPublishes) ELSE @]
          /\ Reports(reporting,
                     PostResponse("create", 200,
                                  IF r.ok THEN "published" ELSE r.error,
                                  api.post, <<>>))
    /\ api' = ApiIdle
    /\ UNCHANGED <<now, quietVars, accounts, nextId, schedVars, crashes,
                   dispatched>>

\* Mutant: only a published post is refused.
RetryableUnlessPublished(status) == status /= "published"

\* retry_post's status test.
Retryable(status) == status \in {"failed", "scheduled"}

\* retry_post up to the adapter call: the lookup of the post, the status
\* test on the row as read, the account lookup, the commit of 'publishing'
\* and the reload.  (retry_count is capped at MaxRetryCount to keep the
\* model finite.)
RetryClaim(reporting) ==
    /\ Serving
    /\ \E p \in PostIds :
          IF posts[p].status = "absent"
          THEN /\ Reports(reporting, PostResponse("retry", 404,
                                      "Post not found", p, <<>>))
               /\ UNCHANGED <<posts, api>>
          ELSE IF ~Retryable(posts[p].status)
          THEN /\ Reports(reporting, PostResponse("retry", 400,
                                      "Cannot retry post", p, <<>>))
               /\ UNCHANGED <<posts, api>>
          ELSE IF posts[p].account_id \notin accounts
          THEN /\ Reports(reporting, PostResponse("retry", 404,
                                      "Account not found", p, <<>>))
               /\ UNCHANGED <<posts, api>>
          ELSE /\ posts[p].retry_count < MaxRetryCount
               /\ posts' = [posts EXCEPT ![p].status = "publishing"]
               /\ api' = [pc |-> "retry", post |-> p,
                          retry_count |-> posts[p].retry_count,
                          last_error |-> posts[p].last_error]
               /\ UNCHANGED response
    /\ UNCHANGED <<now, quietVars, accounts, nextId, schedVars, crashes,
                   histVars>>

\* retry_post, the adapter's return and the outcome write.
RetryOutcome(reporting) ==
    /\ api.pc = "retry"
    /\ \E r \in Outcomes :
          /\ posts' = [posts EXCEPT ![api.post] =
                          EndpointOutcome(posts[api.post], api, r, TRUE)]
          /\ published' = [published EXCEPT ![api.post] =
                IF r.ok THEN Min(@ + 1, MaxPublishes) ELSE @]
          /\ Reports(reporting,
                     PostResponse("retry", 200,
                                  IF r.ok THEN "published" ELSE r.error,
                                  api.post, <<>>))
    /\ api' = ApiIdle
    /\ UNCHANGED <<now, quietVars, accounts, nextId, schedVars, crashes,
                   dispatched>>

\* delete_post up to its status check on the row as read.
DeleteCheck ==
    /\ Serving
    /\ \E p \in PostIds :
          /\ posts[p].status \notin {"absent", "published"}
          /\ api' = [pc |-> "delete", post |-> p, retry_count |-> 0,
                     last_error |-> NoError]
    /\ UNCHANGED <<now, restVars, dbVars, schedVars, crashes, histVars>>

\* delete_post, db.delete(post) and the commit.
DeleteCommit ==
    /\ api.pc = "delete"
    /\ posts' = [posts EXCEPT ![api.post] = Absent]
    /\ api' = ApiIdle
    /\ UNCHANGED <<now, restVars, accounts, nextId, schedVars, crashes, histVars>>

\* remove_account: db.delete(account) and the commit, as the source reads:
\* the account row goes, the posts that refer to it stay.
RemoveAccount ==
    /\ Serving
    /\ \E a \in accounts : accounts' = accounts \ {a}
    /\ UNCHANGED <<now, restVars, posts, nextId, schedVars, api, crashes, histVars>>

\* ------------------------------------- the auth and account endpoints
\* These handlers are `async def` without an await that yields: the event
\* loop runs each of them from its first line to its response.
engineVars == <<dbVars, schedVars, api, crashes, histVars, router, account,
                shutdown, warnings>>

Usernames == {"admin", "root"}
\* The identities verify_token can report for the token just obtained.
Identities == {"alice@social.example", "bob@social.example"}

\* No user, no account row, no OAuth state, no request served.
WebIdle ==
    /\ users = {}
    /\ accountTable = <<>>
    /\ oauthStates = {}
    /\ requests = 0
    /\ response = NoResponse

\* Mutant: setup is always allowed.
check_setup_required_always(us) == TRUE

\* check_setup_required: no user exists.
check_setup_required(us) == Cardinality(us) = 0

\* setup_wizard: POST /auth/setup.
SetupWizard ==
    /\ requests < MaxRequests
    /\ requests' = requests + 1
    /\ \E u \in Usernames :
          IF ~check_setup_required(users)
          THEN /\ response' = Response("setup", 403, "Setup already completed",
                                       0, 0, "none", 0)
               /\ UNCHANGED users
          ELSE IF u \in users
          THEN /\ response' = Response("setup", 409, "Username already exists",
                                       0, 0, "none", 0)
               /\ UNCHANGED users
          ELSE /\ users' = users \cup {u}
               /\ response' = Response("setup", 200, u, 0, 0, "none", 0)
    /\ UNCHANGED <<now, engineVars, accountTable, oauthStates>>

\* Mutant: the purge removes nothing.
PurgedNothing(S) == S

\* _purge_expired_oauth_states: the records that stay, those with
\* created_at not before the cutoff.
Purged(S) == {r \in S : ~(r.created_at < now - _OAUTH_STATE_TTL_MINUTES)}

\* mastodon_connect: POST /accounts/mastodon/connect by the logged-in user.
\* register_app or get_auth_url may fail; the state row is written between
\* the two.
MastodonConnect ==
    /\ requests < MaxRequests
    /\ requests' = requests + 1
    /\ \E u \in users, step \in {"register_app fails", "get_auth_url fails",
                                   "ok"} :
          LET kept == Purged(oauthStates)
              purged == Cardinality(oauthStates) - Cardinality(kept)
              record == [token |-> requests + 1, user |-> u,
                         created_at |-> now]
          IN  IF step = "register_app fails"
              THEN /\ oauthStates' = kept
                   /\ response' = Response("connect", 422, step, 0, 0,
                                           "none", purged)
              ELSE /\ oauthStates' = kept \cup {record}
                   /\ response' =
                         IF step = "ok"
                         THEN Response("connect", 200, "auth_url",
                                       record.token, 0, "none", purged)
                         ELSE Response("connect", 422, step, record.token, 0,
                                       "none", purged)
    /\ UNCHANGED <<now, engineVars, users, accountTable>>

\* The row of the account table the callback writes.
AccountRow(user, identity) ==
    [user |-> user, platform |-> "mastodon", account_id |-> identity,
     is_active |-> TRUE, created_at |-> now, last_synced_at |-> now]

\* Mutant: the callback adds a row whether or not the identity is connected.
UpsertAlwaysInserts(table, user, identity) ==
    Append(table, AccountRow(user, identity))

\* mastodon_callback, the upsert: the first row of this user, platform
\* mastodon and identity is updated; without one a row is added.
Upsert(table, user, identity) ==
    LET matches == {i \in 1..Len(table) :
                       /\ table[i].user = user
                       /\ table[i].platform = "mastodon"
                       /\ table[i].account_id = identity}
    IN  IF matches /= {}
        THEN LET i == CHOOSE k \in matches : \A m \in matches : k <= m
             IN  [table EXCEPT ![i].is_active = TRUE,
                               ![i].last_synced_at = now]
        ELSE Append(table, AccountRow(user, identity))

\* Mutant: the callback leaves the state record in the table.
ConsumedNever(kept, found) == kept

\* db.delete(oauth_state) and the commit: the record found is gone.
Consumed(kept, found) == kept \ found

\* mastodon_callback: GET /accounts/mastodon/callback with the query
\* parameters error, code and state.
MastodonCallback ==
    /\ requests < MaxRequests
    /\ requests' = requests + 1
    /\ \E params \in {"error", "no code or state", "code and state"},
          tok \in 1..MaxRequests,
          step \in {"exchange_code fails", "verify_token fails", "ok"},
          identity \in Identities :
          LET kept == Purged(oauthStates)
              purged == Cardinality(oauthStates) - Cardinality(kept)
              found == {r \in kept : r.token = tok}
              Redirect(detail, n) ==
                  Response("callback", 302, detail, tok, 0, "none", n)
          IN  IF params = "error"
              THEN /\ response' = Redirect("oauth_denied", 0)
                   /\ UNCHANGED <<oauthStates, accountTable>>
              ELSE IF params = "no code or state"
              THEN /\ response' = Redirect("missing_params", 0)
                   /\ UNCHANGED <<oauthStates, accountTable>>
              ELSE IF found = {}
              THEN /\ response' = Redirect("invalid_state", purged)
                   /\ oauthStates' = kept
                   /\ UNCHANGED accountTable
              ELSE IF step /= "ok"
              THEN /\ response' =
                         Redirect(IF step = "exchange_code fails"
                                  THEN "token_exchange_failed"
                                  ELSE "token_verify_failed", purged)
                   /\ oauthStates' = Consumed(kept, found)
                   /\ UNCHANGED accountTable
              ELSE /\ \E r \in found :
                         /\ Len(Upsert(accountTable, r.user, identity))
                               <= MaxRows
                         /\ accountTable' =
                               Upsert(accountTable, r.user, identity)
                   /\ oauthStates' = Consumed(kept, found)
                   /\ response' = Redirect("connected", purged)
    /\ UNCHANGED <<now, engineVars, users>>

\* check_account_status: GET /accounts/{account_id}/status by the logged-in
\* user; `verifies` is what the live call to the platform would answer.
CheckAccountStatus ==
    /\ requests < MaxRequests
    /\ requests' = requests + 1
    /\ \E u \in users, i \in 1..MaxRows, verifies \in BOOLEAN :
          IF i > Len(accountTable) \/ accountTable[i].user /= u
          THEN /\ response' = Response("status", 404, "Account not found",
                                       0, i, "none", 0)
               /\ UNCHANGED accountTable
          ELSE IF accountTable[i].platform /= "mastodon"
          THEN /\ response' = Response("status", 400, "not yet supported",
                                       0, i, "none", 0)
               /\ UNCHANGED accountTable
          ELSE IF ~verifies
          THEN /\ accountTable' = [accountTable EXCEPT ![i].is_active = FALSE]
               /\ response' = Response("status", 200, "not valid", 0, i,
                                       accountTable[i].platform, 0)
          ELSE /\ accountTable' = [accountTable EXCEPT
                                      ![i].is_active = TRUE,
                                      ![i].last_synced_at = now]
               /\ response' = Response("status", 200, "is_valid", 0, i,
                                       accountTable[i].platform, 0)
    /\ UNCHANGED <<now, engineVars, users, oauthStates>>

\* remove_account as the account endpoints see it: the row goes.
RemoveAccountRow ==
    /\ requests < MaxRequests
    /\ requests' = requests + 1
    /\ \E u \in users, i \in 1..Len(accountTable) :
          /\ accountTable[i].user = u
          /\ accountTable' =
                SubSeq(accountTable, 1, i - 1)
                \o SubSeq(accountTable, i + 1, Len(accountTable))
          /\ response' = Response("remove", 204, "removed", 0, i, "none", 0)
    /\ UNCHANGED <<now, engineVars, users, oauthStates>>

\* One minute after the TTL: a state written at minute 0 has expired.
WebHorizon == _OAUTH_STATE_TTL_MINUTES + 1

\* A bluesky account as the account table holds it.
BlueskyRow ==
    [user |-> "admin", platform |-> "bluesky", account_id |-> "did:plc:abc123",
     is_active |-> TRUE, created_at |-> 0, last_synced_at |-> 0]

\* The database at process start: fresh, or holding the user and their
\* bluesky account; the scheduler is not in the picture.
InitAccounts ==
    /\ now = 0
    /\ posts = [p \in PostIds |-> Absent]
    /\ accounts = AccountIds
    /\ nextId = 1
    /\ spc = "stopped"
    /\ due = <<>>
    /\ loaded = NoLoaded
    /\ result = NoResult
    /\ instances = 0
    /\ selected = NoSelection
    /\ router = NoCall
    /\ account = [a \in AccountIds |-> MastodonAccount]
    /\ shutdown = "none"
    /\ warnings = 0
    /\ \/ users = {} /\ accountTable = <<>>
       \/ users = {"admin"} /\ accountTable = <<BlueskyRow>>
    /\ oauthStates = {}
    /\ requests = 0
    /\ response = NoResponse
    /\ api = ApiIdle
    /\ crashes = 0
    /\ published = [p \in PostIds |-> 0]
    /\ dispatched = [p \in PostIds |-> 0]

NextAccounts ==
    \/ SetupWizard
    \/ MastodonConnect
    \/ MastodonCallback
    \/ CheckAccountStatus
    \/ RemoveAccountRow
    \/ Tick(WebHorizon)

SpecAccounts == InitAccounts /\ [][NextAccounts]_vars

\* ------------------------------------------------- the engine on its own
\* Posts created earlier with a scheduled_at, the process not yet started.
InitEngine ==
    /\ now = 0
    /\ posts \in [PostIds -> {NewPost(a, t, "scheduled") :
                                a \in AccountIds, t \in 0..MaxSchedAt}]
    /\ accounts = AccountIds
    /\ nextId = MaxPosts + 1
    /\ spc = "stopped"
    /\ due = <<>>
    /\ loaded = NoLoaded
    /\ result = NoResult
    /\ instances = 0
    /\ selected = NoSelection
    /\ router = NoCall
    /\ account = [a \in AccountIds |-> MastodonAccount]
    /\ shutdown = "none"
    /\ warnings = 0
    /\ WebIdle
    /\ api = ApiIdle
    /\ crashes = 0
    /\ published = [p \in PostIds |-> 0]
    /\ dispatched = [p \in PostIds |-> 0]

NextEngine ==
    \/ Start
    \/ AddJob
    \/ Poll
    \/ NoDuePosts
    \/ Claim(TRUE)
    \/ Publish
    \/ Resolve
    \/ Crash
    \/ Tick(Horizon)
    \/ RemoveAccount

SpecEngine == InitEngine /\ [][NextEngine]_vars

\* ------------------------------------------- the engine and the endpoints
\* An empty post table, the accounts connected, the process not yet started.
Init ==
    /\ now = 0
    /\ posts = [p \in PostIds |-> Absent]
    /\ accounts = AccountIds
    /\ nextId = 1
    /\ spc = "stopped"
    /\ due = <<>>
    /\ loaded = NoLoaded
    /\ result = NoResult
    /\ instances = 0
    /\ selected = NoSelection
    /\ router = NoCall
    /\ account = [a \in AccountIds |-> MastodonAccount]
    /\ shutdown = "none"
    /\ warnings = 0
    /\ WebIdle
    /\ api = ApiIdle
    /\ crashes = 0
    /\ published = [p \in PostIds |-> 0]
    /\ dispatched = [p \in PostIds |-> 0]

Next ==
    \/ Start
    \/ AddJob
    \/ Poll
    \/ NoDuePosts
    \/ Claim(FALSE)
    \/ Publish
    \/ Resolve
    \/ Tick(MaxClock)
    \/ CreateScheduled(FALSE)
    \/ CreateImmediate(FALSE)
    \/ CreateOutcome(FALSE)
    \/ RetryClaim(FALSE)
    \/ RetryOutcome(FALSE)
    \/ DeleteCheck
    \/ DeleteCommit

Spec == Init /\ [][Next]_vars

\* ------------------------------------------ the engine under fair scheduling
\* A minute passes between two polls: the 30-second job has polled, and
\* finished its cycle, before the clock moves on.
TickBetweenPolls ==
    /\ spc = "idle"
    /\ DueSet = {}
    /\ Tick(Horizon)

NextLive ==
    \/ Start
    \/ AddJob
    \/ Poll
    \/ NoDuePosts
    \/ Claim(TRUE)
    \/ Publish
    \/ Resolve
    \/ Crash
    \/ TickBetweenPolls

\* The process is restarted after a crash, the job keeps firing, every
\* adapter call returns and time passes.
SpecLive ==
    /\ InitEngine
    /\ [][NextLive]_vars
    /\ WF_vars(Start)
    /\ WF_vars(AddJob)
    /\ WF_vars(Poll)
    /\ WF_vars(NoDuePosts)
    /\ WF_vars(Claim(TRUE))
    /\ WF_vars(Publish)
    /\ WF_vars(Resolve)
    /\ SF_vars(TickBetweenPolls)

\* ------------------------------------ the engine and unsupported accounts
\* The posts belong to an account of any platform whose credential
\* decrypts or does not; no crash, no endpoint.
InitPlatforms ==
    /\ now = 0
    /\ posts \in [PostIds -> {NewPost(a, t, "scheduled") :
                                a \in AccountIds, t \in 0..MaxSchedAt}]
    /\ accounts = AccountIds
    /\ nextId = MaxPosts + 1
    /\ spc = "stopped"
    /\ due = <<>>
    /\ loaded = NoLoaded
    /\ result = NoResult
    /\ instances = 0
    /\ selected = NoSelection
    /\ router = NoCall
    /\ account \in [AccountIds -> [platform : Platforms,
                                    credentials : {"token", "corrupt"},
                                    is_active : BOOLEAN]]
    /\ shutdown = "none"
    /\ warnings = 0
    /\ WebIdle
    /\ api = ApiIdle
    /\ crashes = 0
    /\ published = [p \in PostIds |-> 0]
    /\ dispatched = [p \in PostIds |-> 0]

NextPlatforms ==
    \/ Start
    \/ AddJob
    \/ Poll
    \/ NoDuePosts
    \/ Claim(TRUE)
    \/ Publish
    \/ Resolve
    \/ Tick(Horizon)

SpecPlatforms == InitPlatforms /\ [][NextPlatforms]_vars

\* ------------------------------------------------ the engine shutting down
NextShutdown ==
    \/ Start
    \/ AddJob
    \/ Poll
    \/ NoDuePosts
    \/ Claim(TRUE)
    \/ Publish
    \/ Resolve
    \/ Tick(Horizon)
    \/ StopScheduler
    \/ ShutdownReturns

SpecShutdown == InitEngine /\ [][NextShutdown]_vars

\* ---------------------------------------- the engine and a second start
NextStart ==
    \/ Start
    \/ StartAgain
    \/ AddJob
    \/ Poll
    \/ NoDuePosts
    \/ Claim(TRUE)
    \/ Publish
    \/ Resolve
    \/ Crash
    \/ Tick(MaxClock)

SpecStart == InitEngine /\ [][NextStart]_vars

\* ----------------------------- the post endpoints and what they answer
NextPosts ==
    \/ Start
    \/ AddJob
    \/ Poll
    \/ NoDuePosts
    \/ Claim(FALSE)
    \/ Publish
    \/ Resolve
    \/ CreateScheduled(TRUE)
    \/ CreateImmediate(TRUE)
    \/ CreateOutcome(TRUE)
    \/ RetryClaim(TRUE)
    \/ RetryOutcome(TRUE)

SpecPosts == Init /\ [][NextPosts]_vars

\* ------------------------------------------- the dispatch router alone
\* Nothing else runs; the inputs of the call are any of RouterCalls.
InitRouter ==
    /\ now = 0
    /\ posts = [p \in PostIds |-> Absent]
    /\ accounts = AccountIds
    /\ nextId = 1
    /\ spc = "stopped"
    /\ due = <<>>
    /\ loaded = NoLoaded
    /\ result = NoResult
    /\ instances = 0
    /\ selected = NoSelection
    /\ router \in RouterCalls
    /\ account = [a \in AccountIds |-> MastodonAccount]
    /\ shutdown = "none"
    /\ warnings = 0
    /\ WebIdle
    /\ api = ApiIdle
    /\ crashes = 0
    /\ published = [p \in PostIds |-> 0]
    /\ dispatched = [p \in PostIds |-> 0]

NextRouter == Dispatch

SpecRouter == InitRouter /\ [][NextRouter]_vars

\* ================================================================ claims
\* The scheduler thread writes the outcome of post p in this step.
ResolveStep(p) ==
    /\ spc = "returned"
    /\ Head(due) = p
    /\ spc' /= "returned"
    /\ crashes' = crashes

\* A step of the scheduler thread (not of an endpoint, the clock or a crash).
SchedulerStep ==
    /\ api' = api
    /\ nextId' = nextId
    /\ now' = now
    /\ accounts' = accounts
    /\ crashes' = crashes

\* C1 (as amended): a failed publish of a post whose retry_count is n, for
\* n in {0,1,2}, puts the post back to scheduled with retry_count n+1 and
\* scheduled_at = (time of the failure) + 2^n minutes: 1, 2 and 4 minutes.
C1_BackoffDelay ==
    [][\A p \in PostIds : \A n \in 0..2 :
          (ResolveStep(p) /\ ~result.ok /\ posts[p].retry_count = n)
          => /\ posts'[p].status = "scheduled"
             /\ posts'[p].retry_count = n + 1
             /\ posts'[p].scheduled_at = now + Pow2(n)]_vars

\* C1 as stated: the delay is 2^(n+1) minutes: 2, 4 and 8 minutes.
C1_Original ==
    [][\A p \in PostIds : \A n \in 0..2 :
          (ResolveStep(p) /\ ~result.ok /\ posts[p].retry_count = n)
          => /\ posts'[p].status = "scheduled"
             /\ posts'[p].retry_count = n + 1
             /\ posts'[p].scheduled_at = now + Pow2(n + 1)]_vars

\* A post that failed three times waits for its third retry.
C1_Witness ==
    \E p \in PostIds :
        /\ posts[p].status = "scheduled"
        /\ posts[p].retry_count = 3
        /\ posts[p].last_error \in Errors
        /\ posts[p].scheduled_at > now

\* C2 as stated: published_at is set if and only if status is published.
C2_Original ==
    \A p \in PostIds :
        posts[p].status /= "absent"
        => (posts[p].published_at /= None <=> posts[p].status = "published")

\* Post p moves to failed in this step.
BecomesFailed(p) ==
    posts[p].status \notin {"failed", "absent"} /\ posts'[p].status = "failed"

C5_Recovery ==
    [][(spc = "stopped" /\ spc' /= "stopped")
       => \A p \in PostIds :
            /\ posts'[p].status /= "publishing"
            /\ posts[p].status = "publishing"
               => posts'[p] = [posts[p] EXCEPT !.status = "scheduled"]
            /\ posts[p].status /= "publishing" => posts'[p] = posts[p]]_vars

\* After a restart a post that had been claimed is scheduled again with
\* retry_count still 0: recovery has reset it.
C5_Witness ==
    \E p \in PostIds :
        /\ crashes = 1
        /\ spc = "idle"
        /\ posts[p].status = "scheduled"
        /\ posts[p].retry_count = 0
        /\ dispatched[p] = 1

\* C6: while the scheduler is between the start of the dispatch of a post
\* and its outcome write, the row is publishing; and a crash at such a point
\* leaves the row publishing.
C6_ClaimBeforeDispatch ==
    /\ [](spc \in {"dispatch", "returned"}
          => posts[Head(due)].status = "publishing")
    /\ [][(spc \in {"dispatch", "returned"} /\ spc' = "stopped")
          => posts'[Head(due)].status = "publishing"]_vars

\* The process died in the middle of a dispatch and the row is publishing.
C6_Witness ==
    /\ spc = "stopped"
    /\ crashes = 1
    /\ \E p \in PostIds : posts[p].status = "publishing" /\ dispatched[p] >= 1

\* C7 as stated: absent a crash, no post is successfully published to its
\* platform more than once.
C7_Original ==
    \A p \in PostIds : crashes = 0 => published[p] <= 1

\* C8 as stated: the scheduler and an endpoint never dispatch the same post
\* at the same time.
C8_Original ==
    ~ /\ spc \in {"dispatch", "returned"}
      /\ api.pc \in {"create", "retry"}
      /\ api.post = Head(due)

\* C9 as stated: no scheduler step changes a post that is published or
\* failed.
C9_Original ==
    [][SchedulerStep
       => \A p \in PostIds :
            posts[p].status \in {"published", "failed"}
            => posts'[p] = posts[p]]_vars

\* C10: under fair scheduling (the process restarts, the job keeps firing,
\* adapter calls return, crashes are finitely many) every scheduled post
\* eventually is published or failed.
C10_EventuallyTerminal ==
    \A p \in PostIds :
        (posts[p].status = "scheduled")
        ~> (posts[p].status \in {"published", "failed"})

\* A post reached a terminal status after a crash and at least one retry.
C10_Witness ==
    \E p \in PostIds :
        /\ crashes = 1
        /\ posts[p].retry_count >= 1
        /\ dispatched[p] >= 3
        /\ posts[p].status \in {"published", "failed"}

\* C11: absent a crash, whenever no poll cycle is running and no request
\* is being handled, no post has status publishing.
C11_NoPublishingAtRest ==
    (crashes = 0 /\ instances = 0 /\ api.pc = "idle")
    => \A p \in PostIds : posts[p].status /= "publishing"

\* At rest after the engine has retried one post and an endpoint has failed
\* another: neither is publishing.
C11_Witness ==
    /\ crashes = 0
    /\ instances = 0
    /\ api.pc = "idle"
    /\ \E p, q \in PostIds :
          /\ posts[p].status = "scheduled"
          /\ posts[p].retry_count = 1
          /\ posts[q].status = "failed"
          /\ posts[q].retry_count = 1

\* C12 as stated: no step lowers the retry_count of a post.
C12_Original ==
    [][\A p \in PostIds :
          (posts[p].status /= "absent" /\ posts'[p].status /= "absent")
          => posts'[p].retry_count >= posts[p].retry_count]_vars

\* A poll cycle begins in this step.
CycleBegins == instances' > instances

\* A poll cycle ends in this step, by its own return.
CycleEnds ==
    /\ spc \in {"cycle", "dispatch", "returned"}
    /\ spc' = "idle"
    /\ crashes' = crashes

\* C13: a process leaves its stopped state only through crash recovery,
\* which ends with no job registered and no row publishing; a poll cycle
\* begins only after the job is registered, and when the first and every
\* later cycle of a process begins no row is publishing.
C13_RecoveryBeforePolling ==
    /\ [](spc = "starting"
          => \A p \in PostIds : posts[p].status /= "publishing")
    /\ [][/\ spc = "stopped" => spc' \in {"stopped", "starting"}
          /\ CycleBegins
             => /\ spc = "idle"
                /\ \A p \in PostIds : posts[p].status /= "publishing"]_vars

\* After a crash in the middle of a dispatch the restarted process has
\* begun a cycle, and that cycle has selected the interrupted post again.
C13_Witness ==
    /\ crashes = 1
    /\ spc = "cycle"
    /\ \E p \in PostIds :
          /\ dispatched[p] = 1
          /\ published[p] = 0
          /\ posts[p].status = "scheduled"
          /\ posts[p].retry_count = 0
          /\ selected[p] /= NotSelected

C15_OneCycle ==
    /\ [](/\ instances <= 1
          /\ instances = 1 <=> spc \in {"cycle", "dispatch", "returned"})
    /\ [][CycleBegins => instances = 0]_vars

\* A cycle is still dispatching while a post it put back for a retry is
\* due again: a trigger firing now finds the run going.
C15_Witness ==
    /\ spc = "dispatch"
    /\ instances = 1
    /\ \E p \in PostIds :
          /\ selected[p] /= NotSelected
          /\ posts[p].status = "scheduled"
          /\ posts[p].retry_count = selected[p].retry_count + 1
          /\ posts[p].scheduled_at <= now

\* C16: the engine has at most one post claimed at a time: between two
\* posts of a cycle no row is publishing, and during a dispatch the only
\* publishing row is the post being dispatched.
C16_OneAtATime ==
    /\ Cardinality({p \in PostIds : posts[p].status = "publishing"}) <= 1
    /\ spc \in {"idle", "cycle"}
       => \A p \in PostIds : posts[p].status /= "publishing"
    /\ spc \in {"dispatch", "returned"}
       => \A p \in PostIds :
            posts[p].status = "publishing" => p = Head(due)

\* The second post of a cycle is in its dispatch after the first one got
\* its outcome.
C16_Witness ==
    /\ spc = "dispatch"
    /\ \E q \in PostIds :
          /\ q /= Head(due)
          /\ selected[q] /= NotSelected
          /\ posts[q].status \in {"published", "scheduled"}
          /\ dispatched[q] >= 1

\* The engine claims post p in this step.
ClaimStep(p) ==
    /\ spc = "cycle"
    /\ due /= <<>>
    /\ Head(due) = p
    /\ posts'[p].status \in {"publishing", "failed"}
    /\ crashes' = crashes

\* Post q was selected by the running cycle and waits behind the head.
Waiting(q) == \E i \in 2..Len(due) : due[i] = q

\* C17 (as amended): within a cycle the posts are claimed in ascending
\* order of the scheduled_at they were selected with; among posts with equal
\* scheduled_at the order is the one the database returned.
C17_AscendingOrder ==
    [][\A p, q \in PostIds :
          (ClaimStep(p) /\ Waiting(q))
          => selected[p].scheduled_at <= selected[q].scheduled_at]_vars

\* C17 as stated: ascending scheduled_at, ties in ascending id.
C17_Original ==
    [][\A p, q \in PostIds :
          (ClaimStep(p) /\ Waiting(q))
          => \/ selected[p].scheduled_at < selected[q].scheduled_at
             \/ /\ selected[p].scheduled_at = selected[q].scheduled_at
                /\ p < q]_vars

\* The post scheduled later is dispatched after the earlier one of the
\* same cycle.
C17_Witness ==
    /\ spc = "dispatch"
    /\ \E q \in PostIds :
          /\ selected[q] /= NotSelected
          /\ selected[q].scheduled_at < selected[Head(due)].scheduled_at

C19_EmptyCycleWritesNothing ==
    [][((CycleBegins /\ due' = <<>>)
        \/ (spc = "cycle" /\ due = <<>> /\ spc' = "idle"))
       => <<posts, accounts, nextId>>' = <<posts, accounts, nextId>>]_vars

\* A cycle found nothing due while a row was publishing for a request and
\* another was scheduled for later.
C19_Witness ==
    /\ spc = "cycle"
    /\ due = <<>>
    /\ \E p, q \in PostIds :
          /\ posts[p].status = "publishing"
          /\ posts[q].status = "scheduled"

\* C20: _publish_to_account returns for every input and raises for none;
\* it reports success exactly when the credential decrypts, the platform
\* is supported and the adapter returns, then with the adapter's URL and no
\* error; otherwise with a message and no URL.
C20_RouterTotal ==
    router.outcome /= NotCalled
    => /\ router.outcome.kind = "return"
       /\ router.outcome.success
          <=> /\ decrypt_credential(router.credentials) = NoError
              /\ router.platform \in {"mastodon", "bluesky"}
              /\ router.adapter.kind = "return"
       /\ router.outcome.success
          => /\ router.outcome.url = router.adapter.url
             /\ router.outcome.url /= NoError
             /\ router.outcome.error = NoError
       /\ ~router.outcome.success
          => /\ router.outcome.error /= NoError
             /\ router.outcome.url = NoError

\* The mastodon adapter let an unexpected exception through and the
\* router returned it as a failure.
C20_Witness ==
    /\ router.platform = "mastodon"
    /\ router.credentials = "token"
    /\ router.adapter.cls = "Exception"
    /\ router.outcome.kind = "return"
    /\ ~router.outcome.success
    /\ router.outcome.error = "Unexpected error: timed out"

\* The platform of account a has no adapter.
Unsupported(a) == account[a].platform \notin {"mastodon", "bluesky"}

\* The error a dispatch to the unsupported account a returns.
UnsupportedError(a) ==
    IF decrypt_credential(account[a].credentials) = NoError
    THEN "Unsupported platform: " \o account[a].platform
    ELSE decrypt_credential(account[a].credentials)

\* A failed publish of post p is written by the retry policy in this step.
FollowsRetryPolicy(p) ==
    /\ posts'[p].last_error = result.error
    /\ posts[p].retry_count < 3
       => /\ posts'[p].status = "scheduled"
          /\ posts'[p].retry_count = posts[p].retry_count + 1
          /\ posts'[p].scheduled_at = now + Pow2(posts[p].retry_count)
    /\ posts[p].retry_count >= 3
       => /\ posts'[p].status = "failed"
          /\ posts'[p].retry_count = posts[p].retry_count

\* C21 as stated: a dispatch to an account of an unsupported platform
\* returns the unsupported-platform error whatever the credential, and the
\* post follows the retry policy.
C21_Original ==
    [][\A p \in PostIds :
          (ResolveStep(p) /\ Unsupported(loaded.account_id))
          => /\ ~result.ok
             /\ result.error =
                   "Unsupported platform: " \o account[loaded.account_id].platform
             /\ FollowsRetryPolicy(p)]_vars

\* C21 (as amended): a dispatch to an account of an unsupported platform
\* has one possible outcome whatever an adapter would do: a failure, with
\* the unsupported-platform error when the credential decrypts and with
\* the decryption error when it does not; the post follows the retry
\* policy of any other failure.
C21_UnsupportedPlatform ==
    /\ [](\A a \in AccountIds :
            Unsupported(a)
            => OutcomesOf(a) = {[ok |-> FALSE, error |-> UnsupportedError(a)]})
    /\ [][\A p \in PostIds :
            (ResolveStep(p) /\ Unsupported(loaded.account_id))
            => /\ ~result.ok
               /\ result.error = UnsupportedError(loaded.account_id)
               /\ FollowsRetryPolicy(p)]_vars

\* A post of an unsupported account failed for good on its fourth
\* dispatch with the unsupported-platform error.
C21_Witness ==
    \E p \in PostIds :
        /\ Unsupported(posts[p].account_id)
        /\ posts[p].status = "failed"
        /\ posts[p].retry_count = 3
        /\ posts[p].last_error = "Unsupported platform: twitter"
        /\ dispatched[p] = 4

\* C22: a successful publish sets status published, published_at = now,
\* clears last_error and changes nothing else, retry_count included; so,
\* absent crashes, a published post has retry_count = (its dispatches) - 1.
C22_SuccessTransition ==
    /\ [][\A p \in PostIds :
            (ResolveStep(p) /\ result.ok)
            => posts'[p] = [posts[p] EXCEPT !.status = "published",
                                            !.published_at = now,
                                            !.last_error = NoError]]_vars
    /\ [](\A p \in PostIds :
            (crashes = 0 /\ posts[p].status = "published")
            => /\ published[p] = 1
               /\ posts[p].retry_count = dispatched[p] - 1
               /\ posts[p].last_error = NoError)

\* A post failed twice and succeeded on its third dispatch.
C22_Witness ==
    \E p \in PostIds :
        /\ crashes = 0
        /\ posts[p].status = "published"
        /\ posts[p].retry_count = 2
        /\ dispatched[p] = 3
        /\ posts[p].last_error = NoError
        /\ posts[p].published_at >= 3

\* An endpoint writes the outcome of its publish of post p in this step,
\* and the publish failed.
EndpointFailure(kind, p) ==
    /\ api.pc = kind
    /\ api.post = p
    /\ api'.pc = "idle"
    /\ posts'[p].status /= "published"

\* C23 as stated: a failed manual retry puts the post back to scheduled
\* with retry_count incremented and a later scheduled_at while retry_count
\* is below 3, and makes it failed only from retry_count 3 on.
C23_Original ==
    [][\A p \in PostIds :
          EndpointFailure("retry", p)
          => /\ api.retry_count < 3
                => /\ posts'[p].status = "scheduled"
                   /\ posts'[p].retry_count = api.retry_count + 1
                   /\ posts'[p].scheduled_at > now
             /\ posts'[p].status = "failed" => api.retry_count >= 3]_vars

\* C24 as stated: the immediate publish of create_post keeps the row
\* publishing during the dispatch, makes it published on success, and on a
\* failure puts it back to scheduled with retry_count + 1 instead of
\* ending it.
C24_Original ==
    /\ [](api.pc = "create" => posts[api.post].status = "publishing")
    /\ [][\A p \in PostIds :
            /\ (api.pc = "create" /\ api.post = p /\ api'.pc = "idle")
               => posts'[p].status \in {"published", "scheduled"}
            /\ EndpointFailure("create", p)
               => /\ posts'[p].status = "scheduled"
                  /\ posts'[p].retry_count = 1]_vars

\* C25 as stated: no step removes a post whose status is published.
C25_Original ==
    [][\A p \in PostIds :
          posts[p].status = "published" => posts'[p].status /= "absent"]_vars

\* C26: once shutdown has been called no cycle begins; shutdown does not
\* return while a cycle is running; and after it has returned no cycle is
\* running and no post is publishing.
C26_GracefulShutdown ==
    /\ [](shutdown = "done"
          => /\ instances = 0
             /\ spc = "idle"
             /\ \A p \in PostIds : posts[p].status /= "publishing")
    /\ [][/\ shutdown /= "none" => ~CycleBegins
          /\ (shutdown = "waiting" /\ instances = 1)
             => shutdown' = "waiting"]_vars

\* Shutdown has returned after a cycle that published one post; another
\* post is due and stays scheduled, since no new cycle begins.
C26_Witness ==
    /\ shutdown = "done"
    /\ \E p, q \in PostIds :
          /\ posts[p].status = "published"
          /\ posts[q].status = "scheduled"
          /\ posts[q].retry_count = 1
          /\ posts[q].scheduled_at <= now


\* A request to the named endpoint is answered in this step.
Answers(endpoint) ==
    /\ requests' = requests + 1
    /\ response'.endpoint = endpoint

\* C27: the setup wizard creates a user only while no user exists and answers
\* 403 without creating one afterwards, so there is never more than one user.
C27_SetupOnce ==
    /\ [](Cardinality(users) <= 1)
    /\ [][Answers("setup")
          => IF users = {}
             THEN /\ response'.status = 200
                  /\ Cardinality(users') = 1
             ELSE /\ response'.status = 403
                  /\ users' = users]_vars

\* A user made by the wizard, and a later setup request refused.
C27_Witness ==
    /\ users = {"root"}
    /\ response.endpoint = "setup"
    /\ response.status = 403
    /\ requests >= 2

\* The identity a row of the account table stands for.
Identity(row) == <<row.user, row.platform, row.account_id>>

\* C28: no two rows of the account table share user, platform and account
\* identifier, and a callback that connects either refreshes the one row of
\* its identity or adds a row for an identity that had none.
C28_OneRowPerIdentity ==
    /\ [](\A i, j \in 1..Len(accountTable) :
             i /= j => Identity(accountTable[i]) /= Identity(accountTable[j]))
    /\ [][(Answers("callback") /\ response'.detail = "connected")
          => \/ \E i \in 1..Len(accountTable) :
                   /\ accountTable[i].platform = "mastodon"
                   /\ accountTable' =
                         [accountTable EXCEPT ![i].is_active = TRUE,
                                              ![i].last_synced_at = now]
             \/ /\ Len(accountTable') = Len(accountTable) + 1
                /\ SubSeq(accountTable', 1, Len(accountTable)) = accountTable
                /\ \A i \in 1..Len(accountTable) :
                      Identity(accountTable[i])
                         /= Identity(accountTable'[Len(accountTable')])]_vars

\* Four requests, the last a callback that connected, and the mastodon row
\* refreshed after the minute it was created in: the second callback found
\* the row of the first.
C28_Witness ==
    /\ requests = 4
    /\ response.endpoint = "callback"
    /\ response.detail = "connected"
    /\ Len(accountTable) = 2
    /\ accountTable[2].platform = "mastodon"
    /\ accountTable[2].last_synced_at > accountTable[2].created_at

\* C29: a callback that carries code and state, and whose state is that of
\* a record older than the TTL, is redirected with invalid_state, leaves the
\* account table alone and the record is gone.
C29_ExpiredStateRejected ==
    [][\A st \in oauthStates :
          (/\ Answers("callback")
           /\ response'.state = st.token
           /\ response'.detail \notin {"oauth_denied", "missing_params"}
           /\ now - st.created_at > _OAUTH_STATE_TTL_MINUTES)
          => /\ response'.detail = "invalid_state"
             /\ accountTable' = accountTable
             /\ st \notin oauthStates']_vars

\* The first request wrote the state, the second came back with it after the
\* TTL, purged it and was refused.
C29_Witness ==
    /\ requests = 2
    /\ response.endpoint = "callback"
    /\ response.state = 1
    /\ response.purged = 1
    /\ response.detail = "invalid_state"
    /\ oauthStates = {}

\* C30 as stated: the status check of a bluesky account of the caller
\* answers 200 with is_valid true and platform bluesky.
C30_Original ==
    [][\A i \in 1..Len(accountTable) :
          (/\ Answers("status")
           /\ response'.row = i
           /\ accountTable[i].platform = "bluesky"
           /\ accountTable[i].user \in users)
          => /\ response'.status = 200
             /\ response'.detail = "is_valid"
             /\ response'.platform = "bluesky"]_vars


\* C31 as stated: the status check of a bluesky account of the caller, its
\* stored token invalid or not, answers 200 with is_valid true or with
\* is_valid false and an error, after at most one refresh.
C31_Original ==
    [][\A i \in 1..Len(accountTable) :
          (/\ Answers("status")
           /\ response'.row = i
           /\ accountTable[i].platform = "bluesky"
           /\ accountTable[i].user \in users)
          => /\ response'.status = 200
             /\ response'.detail \in {"is_valid", "not valid"}]_vars

\* C36: a call of start while the job is registered logs its warning and
\* changes neither a post nor the job, and while the job is registered a
\* post leaves publishing for scheduled only by the outcome write of its
\* own dispatch.
C36_StartIdempotent ==
    [][/\ warnings' /= warnings
          => /\ posts' = posts
             /\ schedVars' = schedVars
       /\ Registered
          => \A p \in PostIds :
                (/\ posts[p].status = "publishing"
                 /\ posts'[p].status = "scheduled")
                => ResolveStep(p)]_vars

\* start was called a second time while the scheduler was dispatching a
\* post, which is still publishing.
C36_Witness ==
    /\ warnings = 1
    /\ spc = "dispatch"
    /\ posts[Head(due)].status = "publishing"
    /\ crashes = 0


\* A step of the scheduler thread: no endpoint, clock or crash moves and
\* the thread does.
EngineStep ==
    /\ api' = api
    /\ now' = now
    /\ crashes' = crashes
    /\ warnings' = warnings
    /\ schedVars' /= schedVars

\* C32: no step of the scheduler thread changes an account row or the set
\* of account rows, and a post the thread turns to, whose account row
\* exists, is dispatched whether the account is active or not.
C32_EngineLeavesAccounts ==
    [][EngineStep
       => /\ account' = account
          /\ accounts' = accounts
          /\ accountTable' = accountTable
          /\ \A p \in PostIds :
                (/\ spc = "cycle"
                 /\ due /= <<>>
                 /\ Head(due) = p
                 /\ posts[p].status /= "absent"
                 /\ posts[p].account_id \in accounts)
                => spc' = "dispatch"]_vars

\* The scheduler published a post of an account that is not active, and
\* the account is as it was.
C32_Witness ==
    \E p \in PostIds :
       /\ posts[p].status = "published"
       /\ dispatched[p] >= 1
       /\ published[p] = 1
       /\ ~account[posts[p].account_id].is_active
       /\ account[posts[p].account_id].platform = "mastodon"


\* C33 as stated: no post has a retry_count above max_retries.
C33_Original ==
    \A p \in PostIds : posts[p].retry_count <= max_retries

\* C35 as stated: a failed post has a last_error.
C35_Original ==
    \A p \in PostIds : posts[p].status = "failed" => posts[p].last_error /= NoError


\* A post endpoint that was not in the middle of a request answers in this
\* step.
PostAnswers(endpoint) ==
    /\ api.pc = "idle"
    /\ response' /= response
    /\ response'.endpoint = endpoint

\* C34: a retry request for a post that is publishing or published is
\* answered 400, starts no publish and changes no row, and a retry claims
\* only a post it read as failed or scheduled.
C34_RetryRefused ==
    [][/\ \A p \in PostIds :
             (/\ PostAnswers("retry")
              /\ response'.row = p
              /\ posts[p].status \in {"publishing", "published"})
             => /\ response'.status = 400
                /\ posts' = posts
                /\ api' = api
                /\ histVars' = histVars
       /\ (api.pc = "idle" /\ api'.pc = "retry")
          => posts[api'.post].status \in {"failed", "scheduled"}]_vars

\* The retry of a post the scheduler is dispatching was refused.
C34_Witness ==
    \E p \in PostIds :
       /\ response.endpoint = "retry"
       /\ response.status = 400
       /\ response.row = p
       /\ posts[p].status = "publishing"
       /\ spc = "dispatch"
       /\ Head(due) = p
       /\ api.pc = "idle"

\* C38: a create_post request one of whose account ids is not an account
\* row of the caller is answered 404, inserts no row and starts no publish;
\* every row inserted belongs to an account that exists.
C38_AllOrNothing ==
    [][/\ \A ids \in AccountLists :
             (/\ PostAnswers("create")
              /\ response'.ids = ids
              /\ \E i \in 1..Len(ids) : ids[i] \notin accounts)
             => /\ response'.status = 404
                /\ posts' = posts
                /\ nextId' = nextId
                /\ api' = api
                /\ histVars' = histVars
       /\ \A p \in PostIds :
             (posts[p].status = "absent" /\ posts'[p].status /= "absent")
             => posts'[p].account_id \in accounts]_vars

\* A request naming the account and an unknown one was refused, and the
\* table holds no row.
C38_Witness ==
    /\ response.endpoint = "create"
    /\ response.status = 404
    /\ response.ids = <<1, UnknownAccount>>
    /\ accounts = AccountIds
    /\ nextId = 1
    /\ \A p \in PostIds : posts[p].status = "absent"


\* The state token t has a record in the table S.
Pending(S, t) == \E st \in S : st.token = t

\* C37: a callback that carries code and state deletes the record of its
\* state, whatever the exchange and the verification give; a token whose
\* record is gone gets no record again, and a callback carrying a state
\* that has no record is redirected with invalid_state and writes no
\* account.
C37_SingleUse ==
    [][\A t \in 1..MaxRequests :
          /\ (/\ Answers("callback")
              /\ response'.state = t
              /\ response'.detail \notin {"oauth_denied", "missing_params"})
             => /\ ~Pending(oauthStates', t)
                /\ ~Pending(oauthStates, t)
                   => /\ response'.detail = "invalid_state"
                      /\ accountTable' = accountTable
          /\ (t <= requests /\ ~Pending(oauthStates, t))
             => ~Pending(oauthStates', t)]_vars

\* The connect of request 1 wrote state 1, the callback of request 2 used
\* it and connected the mastodon account, and the callback of request 3,
\* with the same state and within the TTL, was refused.
C37_Witness ==
    /\ requests = 3
    /\ response.endpoint = "callback"
    /\ response.state = 1
    /\ response.detail = "invalid_state"
    /\ response.purged = 0
    /\ now <= _OAUTH_STATE_TTL_MINUTES
    /\ Len(accountTable) = 2
    /\ accountTable[2].platform = "mastodon"

============================================================================
